---- MODULE Spec2Model ----
(***************************************************************************)
(* Session handling of the Zabbix actuator.                                *)
(*                                                                         *)
(* Commands share one ZabbixApiClient (commands.py: zabbix_client =         *)
(* ZabbixApiClient()) and one ZabbixWebInterfaceClient (zabbix_web_client), *)
(* two objects with no state in common: a behaviour follows the protected  *)
(* calls made on one of them, drawn in Init.  Protected calls              *)
(* (get_data_from_zabbix_api, zabbix_api_load_image, both wrapped by       *)
(* authorised_required) run as coroutines on that instance; a coroutine    *)
(* gives up control only while it awaits an HTTP exchange, so every action *)
(* below is the code that runs between two such awaits.  The backend is    *)
(* not part of the repository: it answers every request with any response  *)
(* of the shapes the code distinguishes, or the transport fails.           *)
(***************************************************************************)
EXTENDS Integers, Sequences, FiniteSets, TLC

\* Number of protected calls that may run concurrently on the client.
NumCalls == 2

\* Deepest nesting of zabbix_login calls followed (the code nests none).
MaxDepth == 2

Calls == 1..NumCalls

\* ZabbixWebInterfaceClient.AUTH_COOKIE_NAME
AUTH_COOKIE_NAME == "zbx_sessionid"

\* Cookie jars: dicts from some of the cookie names to values.
CookieNames == {AUTH_COOKIE_NAME, "PHPSESSID"}
CookieValues(n) == IF n = AUTH_COOKIE_NAME THEN {"s1", "s2"} ELSE {"x"}
Jars ==
  UNION {{jar \in [D -> {"s1", "s2", "x"}] : \A n \in D : jar[n] \in CookieValues(n)} :
           D \in SUBSET CookieNames}
NoCookies == [n \in {} |-> ""]

\* Python's None as a value of self.auth / of a parsed session id.
None == "<None>"

\* Session ids the backend may hand out; "" is a present but empty string.
Tokens == {"", "t1", "t2"}

\* error_codes_switch keys (zabbix_api_client.py:54-55).
SESSION_TERMINATED == -32602
BAD_CREDENTIALS == -32500

\* Error codes the backend may report; -1 is in no recovery table.
ErrorCodes == {SESSION_TERMINATED, BAD_CREDENTIALS, -1}

\* JSON bodies by shape: {"result": ...}, {"error": {"code": ...}}, {}.
\* For the check-session call a result is an object; val = None stands for
\* a result object without the "sessionid" key.
ResultBody(v) == [tag |-> "result", val |-> v, code |-> 0, cookies |-> NoCookies]
ErrorBody(k) == [tag |-> "error", val |-> None, code |-> k, cookies |-> NoCookies]
EmptyBody == [tag |-> "empty", val |-> None, code |-> 0, cookies |-> NoCookies]
NoBody == [tag |-> "nobody", val |-> None, code |-> 0, cookies |-> NoCookies]

ErrorBodies == {ErrorBody(k) : k \in ErrorCodes}
CheckBodies == {ResultBody(v) : v \in Tokens \cup {None}} \cup ErrorBodies \cup {EmptyBody}
LoginBodies == {ResultBody(v) : v \in Tokens} \cup ErrorBodies \cup {EmptyBody}
DataBodies == {ResultBody("data")} \cup ErrorBodies \cup {EmptyBody}

\* Responses of the web interface: a status code and the cookies it sets;
\* val is the content of an image response.
WebResponse(status, jar) == [tag |-> "http", val |-> None, code |-> status, cookies |-> jar]
ImageResponse(img) == [tag |-> "http", val |-> img, code |-> 200, cookies |-> NoCookies]

HeadResponses == {WebResponse(200, jar) : jar \in Jars}
WebLoginResponses == {WebResponse(st, jar) : st \in {200, 403}, jar \in Jars}
ImageResponses == {ImageResponse(img) : img \in {"png", ""}}

\* Requests in flight.  API: the JSON-RPC method and the session id or auth
\* field sent.  Web: the HTTP method and the cookies sent.
NoReq == [method |-> "none", arg |-> "", cookies |-> NoCookies]
LoginReq == [method |-> "user.login", arg |-> "", cookies |-> NoCookies]
CheckReq(sid) == [method |-> "user.checkAuthentication", arg |-> sid, cookies |-> NoCookies]
DataReq(a) == [method |-> "data", arg |-> a, cookies |-> NoCookies]
HeadReq(jar) == [method |-> "HEAD zabbix.php", arg |-> "", cookies |-> jar]
WebLoginReq == [method |-> "POST /", arg |-> "", cookies |-> NoCookies]
ImageReq(jar) == [method |-> "GET chart", arg |-> "", cookies |-> jar]

VARIABLES
  client,     \* the client instance followed: "api" or "web"
  auth,       \* ZabbixApiClient.auth
  cookies,    \* ZabbixWebInterfaceClient.cookies
  pc,         \* per call: the await the coroutine is suspended at
  req,        \* per call: the request in flight
  resp,       \* the last response the client received, and the call it was for
  ret,        \* per call: response_body of the wrapped request
  stack,      \* per call: who awaits the zabbix_login in progress
  outcome,    \* per call: "running", "returned" or the exception raised
  trace,      \* per call: what the call has done so far, in order
  resetLast,  \* the last step on the client was a -32500 token reset
  fresh,      \* per call: started right after such a reset, undisturbed since
  value,      \* per call: what the protected call returned to the command
  template,   \* the "auth" field of the template dict the commands post
  notice      \* per call: the subcommands executed by the command's execute

vars == <<client, auth, cookies, pc, req, resp, ret, stack, outcome, trace, resetLast, fresh,
          value, template, notice>>

\* bool(x) for x None or a string.
Bool(x) == x # None /\ x # ""

\* str(self.auth)
Str(x) == IF x = None THEN "None" ELSE x

\* _set_auth(auth): the stored token afterwards.
SetAuth(stored, new) == IF stored # new THEN new ELSE stored

\* _check_authentication: check_auth_request['result']['sessionid'], None on KeyError.
CheckAuthentication(body) == IF body.tag = "result" THEN body.val ELSE None

\* Variant: the check compares the response with the token it finds stored and
\* stores nothing.
IsAuthorised_CompareOnly(stored, body) ==
  [auth |-> stored, status |-> Bool(stored) /\ stored = CheckAuthentication(body)]

\* is_authorised once the check-session response is there: the token stored
\* afterwards and the status returned.
IsAuthorised(stored, body) ==
  LET sid == CheckAuthentication(body)
      now == SetAuth(stored, sid)
  IN  [auth |-> now, status |-> Bool(now) /\ now = sid]

\* Variant: a failed login keeps the token it found.
ZabbixLogin_KeepOnFailure(stored, body) ==
  IF body.tag = "result" THEN SetAuth(stored, body.val) ELSE stored

\* zabbix_login once the login response is there: the token stored afterwards.
ZabbixLogin(stored, body) ==
  LET got == IF body.tag = "result" THEN body.val ELSE None
  IN  SetAuth(stored, got)

\* Variant: both known codes lead to a new login.
ErrorCodesSwitch_AlwaysLogin(code) ==
  IF code \in {SESSION_TERMINATED, BAD_CREDENTIALS} THEN "zabbix_login" ELSE "KeyError"

\* Variant: a code that is not a key of the switch resets the token.
ErrorCodesSwitch_ResetByDefault(code) ==
  IF code = SESSION_TERMINATED THEN "zabbix_login" ELSE "_set_auth"

\* error_codes_switch[error_code]: the bound method, or the KeyError of the lookup.
ErrorCodesSwitch(code) ==
  CASE code = SESSION_TERMINATED -> "zabbix_login"
    [] code = BAD_CREDENTIALS -> "_set_auth"
    [] OTHER -> "KeyError"

\* post_to_zabbix_api after json.loads: what runs before response_body is returned.
HandleError(error_handling, body) ==
  IF body.tag = "error" /\ error_handling
    THEN ErrorCodesSwitch(body.code)
    ELSE "return"

\* Variant: zabbix_login posts with the default error_handling=True.
LOGIN_ERROR_HANDLING_Default == TRUE

\* Variant: _check_authentication posts with the default error_handling=True.
CHECK_ERROR_HANDLING_Default == TRUE

\* error_handling at the three call sites of post_to_zabbix_api.
LOGIN_ERROR_HANDLING == FALSE
CHECK_ERROR_HANDLING == FALSE
DATA_ERROR_HANDLING == TRUE

\* authorised_required(method, auto_login=True)
AUTO_LOGIN == TRUE

\* Variant: the wrapper logs in whatever the first check says.
AfterFirstCheck_AlwaysLogin(status) == "login"

\* Variant: the wrapper trusts the session without looking at the check.
AfterFirstCheck_NoCheck(status) == "method"

\* wrapper, after the first is_authorised.
AfterFirstCheck(status) ==
  IF status THEN "method" ELSE IF AUTO_LOGIN THEN "login" ELSE "raise"

\* Variant: the wrapper goes on after the login whatever the second check says.
AfterSecondCheck_NeverRaise(status) == "method"

\* Variant: the wrapper logs in again as long as the check says false.
AfterSecondCheck_LoginAgain(status) == IF status THEN "method" ELSE "login"

\* wrapper, after the is_authorised that follows zabbix_login.
AfterSecondCheck(status) ==
  IF status THEN "method" ELSE "raise"

\* Variant: the two cookies are compared as looked up with a default, so two
\* missing cookies count as equal.
WebIsAuthorised_MissingEqual(stored, checked) ==
  LET Get(jar) == IF AUTH_COOKIE_NAME \in DOMAIN jar THEN jar[AUTH_COOKIE_NAME] ELSE None
  IN  Get(stored) = Get(checked)

\* Variant: the response cookies are merged into the stored ones.
WebLogin_Merge(stored, response) ==
  [n \in DOMAIN stored \cup DOMAIN response.cookies |->
     IF n \in DOMAIN response.cookies THEN response.cookies[n] ELSE stored[n]]

\* ZabbixWebInterfaceClient.is_authorised once the HEAD response is there:
\* both lookups succeed and agree; a KeyError leaves auth False.
WebIsAuthorised(stored, checked) ==
  /\ AUTH_COOKIE_NAME \in DOMAIN stored
  /\ AUTH_COOKIE_NAME \in DOMAIN checked
  /\ stored[AUTH_COOKIE_NAME] = checked[AUTH_COOKIE_NAME]

\* ZabbixWebInterfaceClient.zabbix_login once the response is there: the
\* cookies stored afterwards (the status code is only logged).
WebLogin(stored, response) == response.cookies

\* Variant: post_to_zabbix_api returns the body of the login its recovery made.
PostReturn_LoginBody(response_body, login_response) == login_response

\* post_to_zabbix_api line 74: return response_body, whatever the recovery
\* (whose own response is login_response) did.
PostReturn(response_body, login_response) == response_body

\* A template before any call has put a token into it.
NoAuthField == "<absent>"

\* Variant: the token is put into the template only if it holds none yet.
InjectAuth_SetDefault(field, stored) == IF field = NoAuthField THEN stored ELSE field

\* get_data_from_zabbix_api line 57: template['auth'] = self.zabbix_client.auth.
InjectAuth(field, stored) == stored

\* base64.b64encode(image).decode() of the image contents followed.
B64(image) == CASE image = "png" -> "cG5n" [] OTHER -> ""

\* Variant: execute has no except clause for the connection errors.
ExceptHandler_AuthOnly(exc) ==
  IF exc = "AuthorisedException" THEN <<"AuthFailedCommand">> ELSE <<>>

\* ZabbixCallableCommand.execute: the subcommands its except clauses execute
\* for an exception leaving super().execute(); any other exception goes on up.
ExceptHandler(exc) ==
  CASE exc = "AuthorisedException" -> <<"AuthFailedCommand">>
    [] exc = "ConnectError" -> <<"NoConnectToZabbixCommand">>
    [] OTHER -> <<>>

CheckEvent(status) == IF status THEN "check:true" ELSE "check:false"

----------------------------------------------------------------------------
\* The pure functions of the repository are followed one at a time, each on
\* variables of its own; while one component runs the others stay as below.

VARIABLES
  text,       \* ZabbixIssueMessage: the message given to __init__, as characters
  matches,    \* the tags re.findall found in it, in scan order, with their spans
  data,       \* the UserDict contents: lowercased key -> value
  got,        \* the attribute lookups made so far: name and value returned
  pstep       \* "off", "new" (not parsed yet) or "parsed"

parserVars == <<text, matches, data, got, pstep>>

\* An empty dict.
EmptyDict == [k \in {} |-> <<>>]

ParserOff ==
  /\ text = <<>>
  /\ matches = <<>>
  /\ data = EmptyDict
  /\ got = <<>>
  /\ pstep = "off"

VARIABLES
  query,      \* the arguments of a prepare_query_params / _get_resolution call
  resolution, \* what _get_resolution returned
  prepared,   \* what prepare_query_params returned or raised
  qstep       \* "off", "new", "resolved" or "prepared"

queryVars == <<query, resolution, prepared, qstep>>

\* An optional integer argument: None, or the integer n.
NoneArg == <<>>
Some(n) == <<n>>

QueryOff ==
  /\ query = [item_id |-> NoneArg, graph_id |-> NoneArg, period |-> 1]
  /\ resolution = <<0, 0>>
  /\ prepared = [exc |-> "", params |-> EmptyDict]
  /\ qstep = "off"

VARIABLES
  raw,        \* the response body given to format_items_info / format_triggers_info
  formatted,  \* what the formatting returned or raised
  fstep       \* "off", "items" or "triggers" (formatter chosen), then "... done"

formatVars == <<raw, formatted, fstep>>

FormatOff ==
  /\ raw = EmptyDict
  /\ formatted = [exc |-> "", text |-> <<>>]
  /\ fstep = "off"

TypeOK ==
  /\ client \in {"api", "web"}
  /\ auth \in Tokens \cup {None}
  /\ cookies \in Jars
  /\ pc \in [Calls -> {"idle", "check1", "login", "check2", "wrapped", "done"}]
  /\ outcome \in [Calls -> {"running", "returned", "AuthorisedException",
                            "ConnectError", "KeyError", "OSError"}]
  /\ template \in Tokens \cup {None, NoAuthField}
  /\ \A c \in Calls : Len(notice[c]) <= 1
  /\ \A c \in Calls : Len(stack[c]) <= MaxDepth

SessionInit ==
  /\ client \in {"api", "web"}
  /\ auth = None
  /\ cookies = NoCookies
  /\ pc = [c \in Calls |-> "idle"]
  /\ req = [c \in Calls |-> NoReq]
  /\ resp = [call |-> 0, body |-> NoBody]
  /\ ret = [c \in Calls |-> NoBody]
  /\ stack = [c \in Calls |-> <<>>]
  /\ outcome = [c \in Calls |-> "running"]
  /\ trace = [c \in Calls |-> <<>>]
  /\ resetLast = FALSE
  /\ fresh = [c \in Calls |-> FALSE]
  /\ value = [c \in Calls |-> None]
  /\ template = NoAuthField
  /\ notice = [c \in Calls |-> <<>>]

Init == SessionInit /\ ParserOff /\ QueryOff /\ FormatOff

\* The session store of the client followed: its token or its cookies.
Session == IF client = "api" THEN auth ELSE cookies

\* Call c runs on to its next await (or to its end): the new control state;
\* a is the session store it leaves.
Goto(c, p, r, a, tr, st, out) ==
  /\ pc' = [pc EXCEPT ![c] = p]
  /\ req' = [req EXCEPT ![c] = r]
  /\ auth' = IF client = "api" THEN a ELSE auth
  /\ cookies' = IF client = "web" THEN a ELSE cookies
  /\ UNCHANGED client
  /\ trace' = [trace EXCEPT ![c] = tr]
  /\ stack' = [stack EXCEPT ![c] = st]
  /\ outcome' = [outcome EXCEPT ![c] = out]
  /\ UNCHANGED <<parserVars, queryVars, formatVars>>

\* Bookkeeping of "the call that follows a token reset with nothing in between".
Disturb(c, isReset) ==
  /\ resetLast' = isReset
  /\ fresh' = [d \in Calls |-> IF d = c THEN fresh[c] ELSE FALSE]

\* is_authorised up to its request: the check-session post with str(self.auth),
\* or the HEAD with the stored cookies.
CallCheck(c, p, a, tr, st) ==
  /\ Goto(c, p, IF client = "api" THEN CheckReq(Str(a)) ELSE HeadReq(a), a, tr, st, "running")
  /\ UNCHANGED <<value, template, notice>>

\* The wrapped method up to its request.  get_data_from_zabbix_api injects the
\* stored token and posts the template; zabbix_api_load_image sends the GET
\* with the stored cookies.
CallMethod(c, a, tr, st) ==
  LET field == IF client = "api" THEN InjectAuth(template, a) ELSE template
  IN  /\ Goto(c, "wrapped", IF client = "api" THEN DataReq(field) ELSE ImageReq(a), a,
               Append(tr, "call"), st, "running")
      /\ template' = field
      /\ UNCHANGED <<value, notice>>

\* zabbix_login up to its post; `by` is the code that awaits it.
CallLogin(c, by, ev, a, tr, st) ==
  /\ Goto(c, "login", IF client = "api" THEN LoginReq ELSE WebLoginReq, a,
          Append(tr, ev), <<by>> \o st, "running")
  /\ UNCHANGED <<value, template, notice>>

\* Exception exc leaves the protected call and reaches the command's execute.
Raise(c, exc, a, tr) ==
  /\ Goto(c, "done", NoReq, a, tr, <<>>, exc)
  /\ notice' = [notice EXCEPT ![c] = ExceptHandler(exc)]
  /\ UNCHANGED <<value, template>>

\* The protected call returns v to the command.
Return(c, a, tr, v) ==
  /\ Goto(c, "done", NoReq, a, tr, <<>>, "returned")
  /\ value' = [value EXCEPT ![c] = v]
  /\ UNCHANGED <<template, notice>>

\* wrapper lines 74-81: what follows an is_authorised that returned `status`,
\* `next` being the branch taken.
Wrapper(c, next, status, a, tr, st) ==
  LET tr1 == Append(tr, CheckEvent(status))
  IN  CASE next = "method" -> CallMethod(c, a, tr1, st)
        [] next = "login" -> CallLogin(c, "wrapper", "login", a, tr1, st)
        [] OTHER -> Raise(c, "AuthorisedException", a, tr1)

Wrapper1(c, status, a, tr, st) == Wrapper(c, AfterFirstCheck(status), status, a, tr, st)

Wrapper2(c, status, a, tr, st) == Wrapper(c, AfterSecondCheck(status), status, a, tr, st)

\* A protected call begins: wrapper calls is_authorised, which posts the check.
Start(c) ==
  /\ pc[c] = "idle"
  /\ CallCheck(c, "check1", Session, trace[c], stack[c])
  /\ resetLast' = FALSE
  /\ fresh' = [d \in Calls |-> d = c /\ resetLast]
  /\ UNCHANGED <<resp, ret>>

\* The response to the first check-session request arrives.
FirstCheckResponse(c) ==
  /\ client = "api"
  /\ pc[c] = "check1"
  /\ \E body \in CheckBodies :
       LET act == HandleError(CHECK_ERROR_HANDLING, body)
           r == IsAuthorised(IF act = "_set_auth" THEN SetAuth(auth, None) ELSE auth, body)
       IN  /\ resp' = [call |-> c, body |-> body]
           /\ CASE act = "zabbix_login" ->
                     /\ Len(stack[c]) < MaxDepth
                     /\ CallLogin(c, "check1", "relogin", auth, trace[c], stack[c])
                [] act = "KeyError" -> Raise(c, "KeyError", auth, trace[c])
                [] OTHER -> Wrapper1(c, r.status, r.auth, trace[c], stack[c])
  /\ Disturb(c, FALSE)
  /\ UNCHANGED ret

\* The response to the check-session request that follows the login arrives.
SecondCheckResponse(c) ==
  /\ client = "api"
  /\ pc[c] = "check2"
  /\ \E body \in CheckBodies :
       LET act == HandleError(CHECK_ERROR_HANDLING, body)
           r == IsAuthorised(IF act = "_set_auth" THEN SetAuth(auth, None) ELSE auth, body)
       IN  /\ resp' = [call |-> c, body |-> body]
           /\ CASE act = "zabbix_login" ->
                     /\ Len(stack[c]) < MaxDepth
                     /\ CallLogin(c, "check2", "relogin", auth, trace[c], stack[c])
                [] act = "KeyError" -> Raise(c, "KeyError", auth, trace[c])
                [] OTHER -> Wrapper2(c, r.status, r.auth, trace[c], stack[c])
  /\ Disturb(c, FALSE)
  /\ UNCHANGED ret

RECURSIVE PopLogins(_)
\* The frames left once every zabbix_login nested in a zabbix_login has returned.
PopLogins(st) ==
  IF st # <<>> /\ Head(st) = "login" THEN PopLogins(Tail(st)) ELSE st

\* zabbix_login has stored token a and returns to the code that awaits it.
ReturnFromLogin(c, a, tr, st) ==
  LET left == PopLogins(st)
      \* an outer zabbix_login got an error body: it stores None in its turn
      a1 == IF Head(st) = "login" THEN SetAuth(a, None) ELSE a
      by == Head(left)
      rest == Tail(left)
      \* an outer check got the error body that led to this login
      r == IsAuthorised(a1, ErrorBody(SESSION_TERMINATED))
  IN  CASE by = "wrapper" -> CallCheck(c, "check2", a1, tr, rest)
        [] by = "wrapped" -> Return(c, a1, tr, PostReturn(ret[c], resp'.body))
        [] by = "check1" -> Wrapper1(c, r.status, r.auth, tr, rest)
        [] OTHER -> Wrapper2(c, r.status, r.auth, tr, rest)

\* The response to a login request arrives.
LoginResponse(c) ==
  /\ client = "api"
  /\ pc[c] = "login"
  /\ \E body \in LoginBodies :
       LET act == HandleError(LOGIN_ERROR_HANDLING, body)
           a0 == IF act = "_set_auth" THEN SetAuth(auth, None) ELSE auth
       IN  /\ resp' = [call |-> c, body |-> body]
           /\ CASE act = "zabbix_login" ->
                     /\ Len(stack[c]) < MaxDepth
                     /\ CallLogin(c, "login", "relogin", auth, trace[c], stack[c])
                [] act = "KeyError" -> Raise(c, "KeyError", auth, trace[c])
                [] OTHER -> ReturnFromLogin(c, ZabbixLogin(a0, body), trace[c], stack[c])
  /\ Disturb(c, FALSE)
  /\ UNCHANGED ret

\* The response to the wrapped request arrives.
WrappedResponse(c) ==
  /\ client = "api"
  /\ pc[c] = "wrapped"
  /\ \E body \in DataBodies :
       LET act == HandleError(DATA_ERROR_HANDLING, body)
       IN  /\ resp' = [call |-> c, body |-> body]
           /\ ret' = [ret EXCEPT ![c] = body]
           /\ CASE act = "zabbix_login" ->
                     /\ CallLogin(c, "wrapped", "relogin", auth, trace[c], stack[c])
                     /\ Disturb(c, FALSE)
                [] act = "_set_auth" ->
                     /\ Return(c, SetAuth(auth, None), Append(trace[c], "reset"),
                               PostReturn(body, NoBody))
                     /\ Disturb(c, TRUE)
                [] act = "KeyError" ->
                     /\ Raise(c, "KeyError", auth, trace[c])
                     /\ Disturb(c, FALSE)
                [] OTHER ->
                     /\ Return(c, auth, trace[c], PostReturn(body, NoBody))
                     /\ Disturb(c, FALSE)

\* httpx raises ConnectError / ConnectTimeout out of the pending post; nothing
\* between the post and the command's execute catches it.
ConnectFail(c) ==
  /\ pc[c] \in {"check1", "login", "check2", "wrapped"}
  /\ Raise(c, "ConnectError", Session, trace[c])
  /\ Disturb(c, FALSE)
  /\ UNCHANGED <<resp, ret>>

\* Web client: the response to the first HEAD probe arrives.
WebFirstCheckResponse(c) ==
  /\ client = "web"
  /\ pc[c] = "check1"
  /\ \E response \in HeadResponses :
       /\ resp' = [call |-> c, body |-> response]
       /\ Wrapper1(c, WebIsAuthorised(cookies, response.cookies), cookies,
                   trace[c], stack[c])
  /\ Disturb(c, FALSE)
  /\ UNCHANGED ret

\* Web client: the response to the login form arrives.
WebLoginResponse(c) ==
  /\ client = "web"
  /\ pc[c] = "login"
  /\ \E response \in WebLoginResponses :
       /\ resp' = [call |-> c, body |-> response]
       /\ ReturnFromLogin(c, WebLogin(cookies, response), trace[c], stack[c])
  /\ Disturb(c, FALSE)
  /\ UNCHANGED ret

\* Web client: the response to the HEAD probe that follows the login arrives.
WebSecondCheckResponse(c) ==
  /\ client = "web"
  /\ pc[c] = "check2"
  /\ \E response \in HeadResponses :
       /\ resp' = [call |-> c, body |-> response]
       /\ Wrapper2(c, WebIsAuthorised(cookies, response.cookies), cookies,
                   trace[c], stack[c])
  /\ Disturb(c, FALSE)
  /\ UNCHANGED ret

\* Web client: the image arrives; if config.SAVED_IMAGES is set it is written
\* to a file first, and an OSError of open/write leaves zabbix_api_load_image.
WebImageResponse(c) ==
  /\ client = "web"
  /\ pc[c] = "wrapped"
  /\ \E response \in ImageResponses, savedImages \in BOOLEAN, written \in BOOLEAN :
       /\ resp' = [call |-> c, body |-> response]
       /\ IF savedImages /\ ~written
            THEN /\ Raise(c, "OSError", cookies, trace[c])
                 /\ UNCHANGED ret
            ELSE /\ Return(c, cookies, trace[c], B64(response.val))
                 /\ ret' = [ret EXCEPT ![c] = response]
  /\ Disturb(c, FALSE)

Next ==
  \E c \in Calls :
    \/ Start(c)
    \/ FirstCheckResponse(c)
    \/ LoginResponse(c)
    \/ SecondCheckResponse(c)
    \/ WrappedResponse(c)
    \/ WebFirstCheckResponse(c)
    \/ WebLoginResponse(c)
    \/ WebSecondCheckResponse(c)
    \/ WebImageResponse(c)
    \/ ConnectFail(c)

Spec == Init /\ [][Next]_vars

----------------------------------------------------------------------------
\* Reading the per-call record of what a call has done.

Count(tr, e) == Cardinality({i \in 1..Len(tr) : tr[i] = e})

\* Call c has just received the response to a request of kind p.
Answered(c, p) ==
  /\ pc[c] = p
  /\ pc'[c] # p \/ Len(trace'[c]) > Len(trace[c])
  /\ outcome'[c] # "ConnectError"

\* The status returned by the is_authorised that ended in this step.
StatusReturned(c) == trace'[c][Len(trace[c]) + 1]

----------------------------------------------------------------------------
\* C1: per invocation of the wrapper: first check true, no login by the
\* wrapper; first check false, exactly one login by the wrapper, sent before
\* the wrapped call; never more than one login by the wrapper.
C1_WrapperLoginsOnce ==
  \A c \in Calls :
    LET tr == trace[c]
    IN  /\ Count(tr, "login") <= 1
        /\ (Len(tr) >= 1 /\ tr[1] = "check:true") => Count(tr, "login") = 0
        /\ (Len(tr) >= 1 /\ tr[1] = "check:false") =>
             /\ Count(tr, "login") = 1
             /\ tr[2] = "login"
             /\ \A i \in 1..Len(tr) : tr[i] = "call" => i > 2

\* A call whose first check failed, that logged in and then ran the wrapped call.
C1_Witness ==
  \E c \in Calls :
    /\ Len(trace[c]) >= 4
    /\ trace[c][1] = "check:false"
    /\ trace[c][2] = "login"
    /\ trace[c][4] = "call"

\* C2: the wrapped operation starts only right after an is_authorised of the
\* same invocation returned true, and that true rests on the backend's answer
\* to the check: the API check returned a non-empty session id, which is the
\* token the request carries; the HEAD probe returned the session cookie with
\* the value the request carries.
C2_CallOnlyAfterLiveCheck ==
  [][\A c \in Calls :
       /\ \A i \in 1..Len(trace'[c]) :
            trace'[c][i] = "call" => i > 1 /\ trace'[c][i - 1] = "check:true"
       /\ (pc[c] # "wrapped" /\ pc'[c] = "wrapped") =>
            /\ pc[c] \in {"check1", "check2"}
            /\ resp'.call = c
            /\ client = "api" =>
                 /\ resp'.body.tag = "result"
                 /\ Bool(resp'.body.val)
                 /\ req'[c] = DataReq(resp'.body.val)
            /\ client = "web" =>
                 /\ resp'.body.tag = "http"
                 /\ AUTH_COOKIE_NAME \in DOMAIN resp'.body.cookies
                 /\ AUTH_COOKIE_NAME \in DOMAIN req'[c].cookies
                 /\ req'[c].cookies[AUTH_COOKIE_NAME] = resp'.body.cookies[AUTH_COOKIE_NAME]
    ]_vars

\* A wrapped request in flight after a login and a second check.
C2_Witness ==
  \E c \in Calls :
    /\ pc[c] = "wrapped"
    /\ trace[c] = <<"check:false", "login", "check:true", "call">>

\* C3: AuthorisedException is raised exactly when the first check and the check
\* after the login both returned false, and then the wrapped operation has not run.
C3_AuthFailedIffBothChecksFail ==
  \A c \in Calls :
    /\ outcome[c] = "AuthorisedException" <=> Count(trace[c], "check:false") = 2
    /\ outcome[c] = "AuthorisedException" =>
         /\ Count(trace[c], "call") = 0
         /\ Count(trace[c], "login") = 1
         /\ ret[c] = NoBody

C3_Witness ==
  \E c \in Calls :
    /\ outcome[c] = "AuthorisedException"
    /\ trace[c] = <<"check:false", "login", "check:false">>

\* C4: an API is_authorised returns true exactly when the token stored when the
\* check began is non-empty and equal to the session id of the response; in
\* particular false for an empty stored token and for a different session id.
C4_CheckComparesStoredToken ==
  [][\A c \in Calls :
       (Answered(c, "check1") \/ Answered(c, "check2")) =>
         LET sent == req[c].arg
             sid == CheckAuthentication(resp'.body)
         IN  StatusReturned(c) = CheckEvent(sent \notin {"None", ""} /\ sid = sent)
    ]_vars

\* C5: an error code outside the recovery table, handled with error handling
\* on: no exception, no recovery action, token unchanged, body returned as is.
C5_UnknownCodeReturnsBody ==
  [][\A c \in Calls :
       (Answered(c, "wrapped") /\ ret'[c].tag = "error"
          /\ ret'[c].code \notin {SESSION_TERMINATED, BAD_CREDENTIALS}) =>
         /\ outcome'[c] = "returned"
         /\ auth' = auth
         /\ trace'[c] = trace[c]
    ]_vars

\* C6: a wrapped request answered with -32602 triggers exactly one login from
\* the recovery dispatch; whatever answers that login, -32602 included, the
\* call neither sends the request again nor recovers again, and it returns.
C6_OneRecoveryPass ==
  \A c \in Calls :
    ret[c] = ErrorBody(SESSION_TERMINATED) =>
      /\ Count(trace[c], "relogin") = 1
      /\ Count(trace[c], "call") = 1
      /\ Count(trace[c], "reset") = 0
      /\ pc[c] \in {"login", "done"}
      /\ pc[c] = "done" => outcome[c] \in {"returned", "ConnectError"}

\* The recovery login was itself answered with an error, and the call returned.
C6_Witness ==
  \E c \in Calls :
    /\ pc[c] = "done"
    /\ outcome[c] = "returned"
    /\ ret[c] = ErrorBody(SESSION_TERMINATED)
    /\ resp = [call |-> c, body |-> ErrorBody(SESSION_TERMINATED)]
    /\ Count(trace[c], "relogin") = 1

\* C7: a wrapped request answered with -32500: the stored token is None
\* afterwards, no login is sent by the recovery, the request is not sent again.
C7_BadCredentialsClearsToken ==
  [][\A c \in Calls :
       (Answered(c, "wrapped") /\ ret'[c] = ErrorBody(BAD_CREDENTIALS)) =>
         /\ auth' = None
         /\ pc'[c] = "done"
         /\ outcome'[c] = "returned"
         /\ req'[c] = NoReq
         /\ trace'[c] = Append(trace[c], "reset")
    ]_vars

C7_Witness ==
  \E c \in Calls :
    /\ pc[c] = "done"
    /\ outcome[c] = "returned"
    /\ ret[c] = ErrorBody(BAD_CREDENTIALS)
    /\ trace[c][Len(trace[c])] = "reset"
    /\ auth = None

\* C8: the protected call that follows a -32500 token reset, nothing else
\* having run on the client in between, finds is_authorised false and logs in
\* before it sends its wrapped request.
C8_CallAfterResetLogsIn ==
  \A c \in Calls :
    (fresh[c] /\ Len(trace[c]) >= 1) =>
      /\ trace[c][1] = "check:false"
      /\ \A i \in 1..Len(trace[c]) :
           trace[c][i] = "call" => \E j \in 1..(i - 1) : trace[c][j] = "login"

\* C9: a login whose response has no result raises nothing and leaves the
\* stored token None, whatever was stored before.
C9_FailedLoginLeavesNone ==
  [][\A c \in Calls :
       (client = "api" /\ Answered(c, "login") /\ resp'.body.tag # "result") =>
         /\ auth' = None
         /\ outcome'[c] \in {"running", "returned"}
    ]_vars

\* A recovery login, sent by a call that held a token, has failed.
C9_Witness ==
  \E c \in Calls :
    /\ pc[c] = "done"
    /\ outcome[c] = "returned"
    /\ ret[c] = ErrorBody(SESSION_TERMINATED)
    /\ resp = [call |-> c, body |-> EmptyBody]
    /\ auth = None

\* C10: at most one login request of the client is in flight at any time.
C10_SingleFlightLogin ==
  Cardinality({c \in Calls : pc[c] = "login"}) <= 1

\* C11: the login request and the check-session request are posted with
\* error_handling=False: whatever error code answers them, no recovery action
\* is dispatched (no login from the dispatch, no token reset by it, no lookup
\* in the recovery table), zabbix_login is never awaited by a zabbix_login or
\* by a check, and the login or the check is over with that one exchange.
C11_LoginAndCheckDispatchNothing ==
  [][\A c \in Calls :
       client = "api" =>
         /\ Len(stack'[c]) <= 1
         /\ \A i \in 1..Len(stack'[c]) : stack'[c][i] \in {"wrapper", "wrapped"}
         /\ Answered(c, "login") =>
              /\ pc'[c] \in {"check2", "done"}
              /\ stack'[c] = <<>>
              /\ trace'[c] = trace[c]
              /\ outcome'[c] # "KeyError"
         /\ (Answered(c, "check1") \/ Answered(c, "check2")) =>
              /\ pc'[c] \in {"login", "wrapped", "done"}
              /\ StatusReturned(c) \in {"check:true", "check:false"}
              /\ Count(trace'[c], "relogin") = Count(trace[c], "relogin")
              /\ Count(trace'[c], "reset") = Count(trace[c], "reset")
              /\ outcome'[c] # "KeyError"
    ]_vars

\* The wrapper's login was answered with -32602 and the call went on to its
\* second check.
C11_Witness ==
  \E c \in Calls :
    /\ pc[c] = "check2"
    /\ stack[c] = <<>>
    /\ resp = [call |-> c, body |-> ErrorBody(SESSION_TERMINATED)]
    /\ trace[c] = <<"check:false", "login">>

\* C12: a wrapped request answered with an error whose code is in the recovery
\* table (-32602, -32500): the call returns the very body it received; the
\* recovery neither replaces it by the body of its login nor sends the
\* request again.
C12_RecoveryReturnsReceivedBody ==
  \A c \in Calls :
    (client = "api" /\ pc[c] = "done" /\ ret[c].tag = "error"
       /\ ret[c].code \in {SESSION_TERMINATED, BAD_CREDENTIALS}) =>
      /\ outcome[c] \in {"returned", "ConnectError"}
      /\ outcome[c] = "returned" => value[c] = ret[c]
      /\ Count(trace[c], "call") = 1

\* The recovery login succeeded with a body of its own, and the call returned
\* the -32602 body.
C12_Witness ==
  \E c \in Calls :
    /\ pc[c] = "done"
    /\ outcome[c] = "returned"
    /\ ret[c] = ErrorBody(SESSION_TERMINATED)
    /\ resp = [call |-> c, body |-> ResultBody("t1")]
    /\ auth = "t1"
    /\ value[c] = ErrorBody(SESSION_TERMINATED)

\* C13: a protected RPC request carries in its auth field the token stored at
\* the moment it is posted: whatever an earlier call left in the template is
\* overwritten, and no login or recovery of another call can change the stored
\* token between the injection and the post.
C13_RequestCarriesStoredToken ==
  [][\A c \in Calls :
       (client = "api" /\ pc[c] # "wrapped" /\ pc'[c] = "wrapped") =>
         /\ req'[c].method = "data"
         /\ req'[c].arg = auth'
         /\ template' = auth'
    ]_vars

\* Two requests in flight, posted with different tokens out of the one
\* template: the later one carries the token stored when it was posted.
C13_Witness ==
  \E c, d \in Calls :
    /\ pc[c] = "wrapped" /\ pc[d] = "wrapped"
    /\ req[d].arg = "t1"
    /\ req[c].arg = "t2"
    /\ auth = "t2"
    /\ template = "t2"

\* C14: whatever the backend answers to a protected call of the API client
\* (a result, an error with a known or an unknown code, a body without
\* result), the call ends by returning, by AuthorisedException or by a
\* connection error, never by another exception.
C14_OnlyAuthFailedOrConnectError ==
  \A c \in Calls :
    client = "api" =>
      outcome[c] \in {"running", "returned", "AuthorisedException", "ConnectError"}

\* C15 as stated: the stored token changes only in a step that ends a login
\* or a session check; handling the response of a protected request leaves it
\* as it was.
C15_TokenChangesOnlyInLoginOrCheck ==
  [][auth' # auth =>
       \E c \in Calls :
         Answered(c, "login") \/ Answered(c, "check1") \/ Answered(c, "check2")
    ]_vars

\* C15, amended: the stored token changes only in a step that ends a login or
\* a session check, or in the handling of a protected response with code
\* -32500, which sets it to None; starting a call, injecting the token,
\* posting the request and handling any other protected response leave it
\* as it was.
C15_TokenChangesOnlyInLoginCheckOrReset ==
  [][auth' # auth =>
       \E c \in Calls :
         \/ Answered(c, "login") \/ Answered(c, "check1") \/ Answered(c, "check2")
         \/ /\ Answered(c, "wrapped")
            /\ resp'.body = ErrorBody(BAD_CREDENTIALS)
            /\ auth' = None
    ]_vars

\* A stored token was cleared by the handling of a -32500 response.
C15_Witness ==
  \E c \in Calls :
    /\ resetLast
    /\ resp = [call |-> c, body |-> ErrorBody(BAD_CREDENTIALS)]
    /\ req[c] = NoReq
    /\ template \in {"t1", "t2"}
    /\ auth = None

\* C16: execute answers each failure of the core with its own notification,
\* once: AuthorisedException with AuthFailedCommand, a connection error
\* (refused or timed out) with NoConnectToZabbixCommand; a call that has not
\* failed that way notifies nothing, and the failed protected call is over:
\* no request of it is in flight again and its wrapped request was posted at
\* most once.
C16_FailureNotifiedOnce ==
  \A c \in Calls :
    /\ outcome[c] = "AuthorisedException" <=> notice[c] = <<"AuthFailedCommand">>
    /\ outcome[c] = "ConnectError" <=> notice[c] = <<"NoConnectToZabbixCommand">>
    /\ outcome[c] \in {"running", "returned"} => notice[c] = <<>>
    /\ Len(notice[c]) <= 1
    /\ notice[c] # <<>> =>
         /\ pc[c] = "done"
         /\ req[c] = NoReq
         /\ Count(trace[c], "call") <= 1

\* One command was told that the backend is unreachable after its wrapped
\* request failed to connect, another that authentication failed.
C16_Witness ==
  \E c, d \in Calls :
    /\ outcome[c] = "ConnectError"
    /\ Count(trace[c], "call") = 1
    /\ notice[c] = <<"NoConnectToZabbixCommand">>
    /\ outcome[d] = "AuthorisedException"
    /\ notice[d] = <<"AuthFailedCommand">>

\* C17: is_authorised of the web client lets no exception out and always
\* gives a boolean, also when the HEAD request itself fails to connect.
C17_WebCheckAlwaysBoolean ==
  [][\A c \in Calls :
       (client = "web" /\ pc[c] \in {"check1", "check2"} /\ pc'[c] # pc[c]) =>
         /\ outcome'[c] # "ConnectError"
         /\ Len(trace'[c]) > Len(trace[c])
         /\ StatusReturned(c) \in {"check:true", "check:false"}
    ]_vars

\* C18: is_authorised of the web client returns true exactly when the session
\* cookie is in the stored cookies and in the cookies of the probe response
\* and the two values are equal; a cookie missing on either side gives false.
C18_WebCheckTrueIffCookiesAgree ==
  [][\A c \in Calls :
       (client = "web" /\ (Answered(c, "check1") \/ Answered(c, "check2"))) =>
         LET probe == resp'.body.cookies
             both == /\ AUTH_COOKIE_NAME \in DOMAIN cookies
                     /\ AUTH_COOKIE_NAME \in DOMAIN probe
         IN  /\ both => (StatusReturned(c) = "check:true"
                           <=> cookies[AUTH_COOKIE_NAME] = probe[AUTH_COOKIE_NAME])
             /\ ~both => StatusReturned(c) = "check:false"
    ]_vars

\* A probe echoed the stored session cookie, the check was true and the
\* image request went out without a login.
C18_Witness ==
  \E c \in Calls :
    /\ client = "web"
    /\ pc[c] = "wrapped"
    /\ resp.call = c
    /\ AUTH_COOKIE_NAME \in DOMAIN cookies
    /\ AUTH_COOKIE_NAME \in DOMAIN resp.body.cookies
    /\ resp.body.cookies[AUTH_COOKIE_NAME] = cookies[AUTH_COOKIE_NAME]
    /\ trace[c] = <<"check:true", "call">>

\* The ways a login response of the web interface can tell a failed login.
WithoutSessionCookie(response) == AUTH_COOKIE_NAME \notin DOMAIN response.cookies
SoftFailure(response) == response.code # 200 \/ WithoutSessionCookie(response)

\* C19 as stated: zabbix_login of the web client raises nothing and stores
\* exactly the cookies of its response; after a login that failed (status not
\* 200, or no session cookie in the response) the is_authorised that follows,
\* nothing else having been received in between, returns false.
C19_FailedWebLoginThenCheckFalse ==
  [][\A c \in Calls :
       client = "web" =>
         /\ Answered(c, "login") =>
              /\ cookies' = resp'.body.cookies
              /\ outcome'[c] = "running"
         /\ (Answered(c, "check2") /\ resp.call = c /\ SoftFailure(resp.body)) =>
              StatusReturned(c) = "check:false"
    ]_vars

\* C19, amended: zabbix_login of the web client raises nothing, whatever the
\* status and the cookies of the response, and stores exactly the cookies of
\* its response; after a login whose response has no session cookie no session
\* cookie is stored, and the is_authorised that follows, nothing else having
\* been received in between, returns false.
C19_WebLoginWithoutCookieThenCheckFalse ==
  [][\A c \in Calls :
       client = "web" =>
         /\ Answered(c, "login") =>
              /\ cookies' = resp'.body.cookies
              /\ outcome'[c] = "running"
              /\ WithoutSessionCookie(resp'.body) => AUTH_COOKIE_NAME \notin DOMAIN cookies'
         /\ (Answered(c, "check2") /\ resp.call = c /\ WithoutSessionCookie(resp.body)) =>
              StatusReturned(c) = "check:false"
    ]_vars

\* A session cookie had been stored (another call got through with it); then
\* a login without session cookie wiped it and the check that followed failed.
C19_Witness ==
  \E c, d \in Calls :
    /\ client = "web"
    /\ trace[d] = <<"check:false", "login", "check:true", "call">>
    /\ trace[c] = <<"check:false", "login", "check:false">>
    /\ outcome[c] = "AuthorisedException"
    /\ resp.call = c
    /\ cookies \in Jars
    /\ AUTH_COOKIE_NAME \notin DOMAIN cookies

\* C20: zabbix_api_load_image ends normally with the encoded image whenever
\* the image response arrives, also when saving images is enabled and writing
\* the file fails.
C20_ImageReturnedDespiteWriteFailure ==
  [][\A c \in Calls :
       (client = "web" /\ Answered(c, "wrapped")) =>
         /\ outcome'[c] = "returned"
         /\ value'[c] = B64(resp'.body.val)
    ]_vars

----------------------------------------------------------------------------
\* ZabbixIssueMessage (zabbix_main_client.py 12-41).  A string is the
\* sequence of its characters.

\* Longest message written character by character, and most pieces (tags and
\* fragments of tags) a longer message is put together from.
MaxRawLen == 6
MaxPieces == 3

\* Lookups followed on one parsed message.
MaxLookups == 1

RawChars == {"[", "]", ":", " ", "x"}

IsSpace(ch) == ch = " "

\* str.lower() on one character, on a string.
LowerChar(ch) == CASE ch = "X" -> "x" [] ch = "Y" -> "y" [] OTHER -> ch
Lower(str) == [j \in 1..Len(str) |-> LowerChar(str[j])]

Min(S) == CHOOSE m \in S : \A n \in S : m <= n
Max(S) == CHOOSE m \in S : \A n \in S : m >= n

NoMatch == [start |-> 0, stop |-> 0, key |-> <<>>, value |-> <<>>]

\* The positions where group 1, ([\S]+?), may end for a match that starts
\* with the "[" at position i: non-space characters only, ": " behind it and,
\* after at least one more character, a "]" somewhere.
KeyEnds(t, i) ==
  {k \in (i + 1)..Len(t) :
     /\ \A j \in (i + 1)..k : ~IsSpace(t[j])
     /\ k + 2 <= Len(t) /\ t[k + 1] = ":" /\ t[k + 2] = " "
     /\ \E e \in (k + 4)..Len(t) : t[e] = "]"}

\* Variant: group 2 is greedy, ([\S\s]+), and runs to the last "]".
MatchAt_Greedy(t, i) ==
  IF i > Len(t) \/ t[i] # "[" \/ KeyEnds(t, i) = {} THEN NoMatch
  ELSE LET k == Min(KeyEnds(t, i))
           e == Max({n \in (k + 4)..Len(t) : t[n] = "]"})
       IN  [start |-> i, stop |-> e, key |-> SubSeq(t, i + 1, k),
            value |-> SubSeq(t, k + 3, e - 1)]

\* pattern.match at position i: both groups are lazy, so the shortest key that
\* lets the rest match, then the shortest value of one character or more that
\* is followed by "]".
MatchAt(t, i) ==
  IF i > Len(t) \/ t[i] # "[" \/ KeyEnds(t, i) = {} THEN NoMatch
  ELSE LET k == Min(KeyEnds(t, i))
           e == Min({n \in (k + 4)..Len(t) : t[n] = "]"})
       IN  [start |-> i, stop |-> e, key |-> SubSeq(t, i + 1, k),
            value |-> SubSeq(t, k + 3, e - 1)]

RECURSIVE Scan(_, _)
\* re.findall from position i on: leftmost match, then on behind its end.
Scan(t, i) ==
  IF i > Len(t) THEN <<>>
  ELSE LET m == MatchAt(t, i)
       IN  IF m = NoMatch THEN Scan(t, i + 1) ELSE <<m>> \o Scan(t, m.stop + 1)

FindAll(t) == Scan(t, 1)

\* Variant: the first occurrence of a key wins.
ParseMessage_FirstWins(found) ==
  LET keys == {Lower(found[n].key) : n \in 1..Len(found)}
  IN  [k \in keys |-> found[Min({n \in 1..Len(found) : Lower(found[n].key) = k})].value]

\* _parse_message lines 40-41: {match[0].lower(): match[1] for match in
\* parameters}, a later match replacing an earlier one of the same key.
ParseMessage(found) ==
  LET keys == {Lower(found[n].key) : n \in 1..Len(found)}
  IN  [k \in keys |-> found[Max({n \in 1..Len(found) : Lower(found[n].key) = k})].value]

\* Variant: the lookup uses get(item, "") and stores nothing.
SetDefault_Get(d, item) ==
  [value |-> IF item \in DOMAIN d THEN d[item] ELSE <<>>, data |-> d]

\* __getattr__ line 34: self.setdefault(item, ""): the value returned and the
\* dict afterwards.
SetDefault(d, item) ==
  IF item \in DOMAIN d
    THEN [value |-> d[item], data |-> d]
    ELSE [value |-> <<>>,
          data |-> [k \in DOMAIN d \cup {item} |-> IF k = item THEN <<>> ELSE d[k]]]

RECURSIVE Strings(_, _)
\* The strings of at most n characters of S.
Strings(S, n) ==
  IF n = 0 THEN {<<>>}
  ELSE LET shorter == Strings(S, n - 1)
       IN  shorter \cup {Append(str, ch) : str \in shorter, ch \in S}

\* A well-formed tag.
Tag(key, val) == <<"[">> \o key \o <<":", " ">> \o val \o <<"]">>

TagKeys == {<<"x">>, <<"X">>, <<"y">>}
TagValues == {<<"1">>, <<"2">>, <<"a", " ", "b">>}
Tags == {Tag(k, v) : k \in TagKeys, v \in TagValues}

\* Text found around tags, and tags cut short.
Fragments == {<<"\n">>, <<"]">>, <<"[", "x">>}

RECURSIVE Concat(_, _)
\* The concatenations of at most n strings of S.
Concat(S, n) ==
  IF n = 0 THEN {<<>>}
  ELSE LET shorter == Concat(S, n - 1)
       IN  shorter \cup {str \o piece : str \in shorter, piece \in S}

Messages == Strings(RawChars, MaxRawLen) \cup Concat(Tags \cup Fragments, MaxPieces)

\* The names looked up on a message.
LookupNames == {<<"x">>, <<"X">>, <<"y">>, <<"z">>}

ParserInit ==
  /\ text \in Messages
  /\ matches = <<>>
  /\ data = EmptyDict
  /\ got = <<>>
  /\ pstep = "new"
  /\ SessionInit /\ client = "api"
  /\ QueryOff /\ FormatOff

\* ZabbixIssueMessage.__init__: super().__init__() and _parse_message.
ParseStep ==
  /\ pstep = "new"
  /\ matches' = FindAll(text)
  /\ data' = ParseMessage(matches')
  /\ pstep' = "parsed"
  /\ UNCHANGED <<text, got>>
  /\ UNCHANGED <<vars, queryVars, formatVars>>

\* message.<name> for a name that is no attribute of the object: __getattr__.
LookupStep ==
  /\ pstep = "parsed"
  /\ Len(got) < MaxLookups
  /\ \E name \in LookupNames :
       LET r == SetDefault(data, name)
       IN  /\ got' = Append(got, [name |-> name, value |-> r.value])
           /\ data' = r.data
  /\ UNCHANGED <<text, matches, pstep>>
  /\ UNCHANGED <<vars, queryVars, formatVars>>

ParserNext == ParseStep \/ LookupStep

ParserSpec == ParserInit /\ [][ParserNext]_<<vars, parserVars, queryVars, formatVars>>

----------------------------------------------------------------------------
\* Reading a parsed message.

\* The tags found fill the text, one after the other, and each is well formed:
\* no bracket, colon or space in the key, no bracket in the value.
MadeOfTags ==
  /\ pstep = "parsed"
  /\ matches # <<>>
  /\ matches[1].start = 1
  /\ matches[Len(matches)].stop = Len(text)
  /\ \A n \in 1..(Len(matches) - 1) : matches[n + 1].start = matches[n].stop + 1
  /\ \A n \in 1..Len(matches) :
       /\ \A j \in 1..Len(matches[n].key) : matches[n].key[j] \notin {"[", "]", ":", " "}
       /\ \A j \in 1..Len(matches[n].value) : matches[n].value[j] \notin {"[", "]"}

\* The tags whose key is `name` in some letter case.
TagsNamed(name) == {n \in 1..Len(matches) : Lower(matches[n].key) = Lower(name)}

\* C21: on a text made of well-formed tags, a lookup of a key of the text, in
\* any letter case, returns the value of that key, and a lookup of a key that
\* is not in the text returns the empty string.
C21_LookupAnyCase ==
  MadeOfTags =>
    \A i \in 1..Len(got) :
       got[i].value = IF TagsNamed(got[i].name) = {} THEN <<>>
                      ELSE matches[Max(TagsNamed(got[i].name))].value

\* C22: after parsing, the keys of the mapping are the lowercased keys of the
\* tags found, and each holds the value of the last tag, in scan order, whose
\* lowercased key it is.
C22_LowercaseKeysLastWins ==
  (pstep = "parsed" /\ got = <<>>) =>
    /\ DOMAIN data = {Lower(matches[n].key) : n \in 1..Len(matches)}
    /\ \A k \in DOMAIN data :
         /\ k = Lower(k)
         /\ data[k] = matches[Max(TagsNamed(k))].value

\* [X: 1][x: 2] has been parsed: x = "2".
C22_Witness ==
  /\ pstep = "parsed"
  /\ text = Tag(<<"X">>, <<"1">>) \o Tag(<<"x">>, <<"2">>)
  /\ Len(matches) = 2
  /\ data = [k \in {<<"x">>} |-> <<"2">>]

\* No character of the text belongs to two of the tags found.
NonOverlapping ==
  \A n \in 1..(Len(matches) - 1) : matches[n].stop < matches[n + 1].start

\* C23 as stated: no parsed value contains "]", each value ending at the
\* nearest "]" behind its "key: " prefix, and the tags found do not overlap.
C23_NoBracketInValue ==
  /\ NonOverlapping
  /\ \A n \in 1..Len(matches) :
       \A j \in 1..Len(matches[n].value) : matches[n].value[j] # "]"

\* C23, amended: a parsed value has one character at least and no "]" behind
\* its first character: it ends at the nearest "]" that follows that first
\* character, which may itself be "]"; the tags found do not overlap.
C23_NoBracketBehindFirstCharacter ==
  /\ NonOverlapping
  /\ \A n \in 1..Len(matches) :
       /\ Len(matches[n].value) >= 1
       /\ text[matches[n].stop] = "]"
       /\ \A j \in 2..Len(matches[n].value) : matches[n].value[j] # "]"

\* [x: ]] has been parsed: the value is "]".
C23_Witness ==
  /\ pstep = "parsed"
  /\ text = <<"[", "x", ":", " ", "]", "]">>
  /\ Len(matches) = 1
  /\ matches[1].value = <<"]">>
  /\ matches[1].stop = 6

----------------------------------------------------------------------------
\* WebInterfaceCommandMixin.prepare_query_params and _get_resolution
\* (commands.py 135-169).

\* Largest period, in hours, and largest identifier followed.
MaxPeriod == 6
MaxId == 2

\* _get_resolution lines 161-164.
BASE_WIDTH == 400
BASE_HEIGHT == 200
MAX_WIDTH == 1000
MAX_HEIGHT == 350

\* Python's min of two integers.
PyMin(a, b) == IF a <= b THEN a ELSE b

\* Variant: the resolution is returned as computed, without the caps.
GetResolution_NoCap(hours) ==
  <<BASE_WIDTH + (200 * hours), BASE_HEIGHT + (50 * hours)>>

\* _get_resolution(hours), hours an integer: (width, height).
GetResolution(hours) ==
  LET width == BASE_WIDTH + (200 * hours)
      height == BASE_HEIGHT + (50 * hours)
  IN  <<PyMin(width, MAX_WIDTH), PyMin(height, MAX_HEIGHT)>>

\* Truth value of an optional integer: None and 0 are false.
Truthy(x) == x # NoneArg /\ x # Some(0)

\* The dict literal of lines 140-149.
BaseParams(item_id, graph_id, period) ==
  LET res == GetResolution(period)
  IN  [k \in {"type", "from", "to", "profileIdx", "profileIdx2", "width", "height"} |->
         CASE k = "type" -> Some(0)
           [] k = "from" -> <<"now-", period, "h">>
           [] k = "to" -> <<"now">>
           [] k = "profileIdx" -> <<"web.graphs.filter">>
           [] k = "profileIdx2" -> IF Truthy(item_id) THEN item_id ELSE graph_id
           [] k = "width" -> Some(res[1])
           [] OTHER -> Some(res[2])]

\* d with d[key] = val added.
With(d, key, val) == [k \in DOMAIN d \cup {key} |-> IF k = key THEN val ELSE d[k]]

Raised(exc) == [exc |-> exc, params |-> EmptyDict]

\* prepare_query_params(item_id, graph_id, period): the dict returned, or the
\* exception raised.
PrepareQueryParams(item_id, graph_id, period) ==
  IF Truthy(item_id) /\ Truthy(graph_id) THEN Raised("AttributeError")
  ELSE IF Truthy(item_id)
    THEN [exc |-> "", params |-> With(BaseParams(item_id, graph_id, period), "itemids", item_id)]
  ELSE IF Truthy(graph_id)
    THEN [exc |-> "", params |-> With(BaseParams(item_id, graph_id, period), "graphid", graph_id)]
  ELSE Raised("AttributeError")

Ids == {NoneArg} \cup {Some(n) : n \in 0..MaxId}

QueryInit ==
  /\ query \in [item_id : Ids, graph_id : Ids, period : 0..MaxPeriod]
  /\ resolution = <<0, 0>>
  /\ prepared = [exc |-> "", params |-> EmptyDict]
  /\ qstep = "new"
  /\ SessionInit /\ client = "web"
  /\ ParserOff /\ FormatOff

\* A call of _get_resolution(period).
ResolveStep ==
  /\ qstep = "new"
  /\ resolution' = GetResolution(query.period)
  /\ qstep' = "resolved"
  /\ UNCHANGED <<query, prepared>>
  /\ UNCHANGED <<vars, parserVars, formatVars>>

\* A call of prepare_query_params(item_id, graph_id, period).
PrepareStep ==
  /\ qstep = "new"
  /\ prepared' = PrepareQueryParams(query.item_id, query.graph_id, query.period)
  /\ qstep' = "prepared"
  /\ UNCHANGED <<query, resolution>>
  /\ UNCHANGED <<vars, parserVars, formatVars>>

QueryNext == ResolveStep \/ PrepareStep

QuerySpec == QueryInit /\ [][QueryNext]_<<vars, parserVars, queryVars, formatVars>>

\* C24: for a period p >= 0 the resolution is min(400 + 200 p, 1000) by
\* min(200 + 50 p, 350): it does not decrease when p grows, it is 600 x 250
\* for p = 1 and 1000 x 350 for every p >= 4.
C24_ResolutionStepFunction ==
  qstep = "resolved" =>
    LET p == query.period
        w == 400 + 200 * p
        h == 200 + 50 * p
    IN  /\ resolution[1] = IF w < 1000 THEN w ELSE 1000
        /\ resolution[2] = IF h < 350 THEN h ELSE 350
        /\ p = 1 => resolution = <<600, 250>>
        /\ p >= 4 => resolution = <<1000, 350>>
        /\ \A q \in 0..p :
             /\ GetResolution(q)[1] <= resolution[1]
             /\ GetResolution(q)[2] <= resolution[2]

\* The resolution of a period of 4 hours has been computed: the cap.
C24_Witness ==
  /\ qstep = "resolved"
  /\ query.period = 4
  /\ resolution = <<1000, 350>>

\* C25: prepare_query_params raises when an item identifier and a graph
\* identifier are both given and when neither is given; given exactly one,
\* whatever its value (0 included), it returns parameters with exactly one of
\* itemids / graphid, set to that identifier, and profileIdx2 set to it too.
C25_ExactlyOneIdentifier ==
  qstep = "prepared" =>
    LET item == query.item_id
        graph == query.graph_id
        keys == DOMAIN prepared.params \cap {"itemids", "graphid"}
    IN  /\ (item # NoneArg /\ graph # NoneArg) => prepared.exc = "AttributeError"
        /\ (item = NoneArg /\ graph = NoneArg) => prepared.exc = "AttributeError"
        /\ (item # NoneArg /\ graph = NoneArg) =>
             /\ prepared.exc = ""
             /\ keys = {"itemids"}
             /\ prepared.params["itemids"] = item
             /\ prepared.params["profileIdx2"] = item
        /\ (item = NoneArg /\ graph # NoneArg) =>
             /\ prepared.exc = ""
             /\ keys = {"graphid"}
             /\ prepared.params["graphid"] = graph
             /\ prepared.params["profileIdx2"] = graph

----------------------------------------------------------------------------
\* format_items_info and format_triggers_info (commands.py 61-108).  A JSON
\* object is a function from its keys; a response body has a "result" list of
\* entries or none; an entry has some of the fields the formatter reads.

\* Most entries in a result list.
MaxEntries == 2

\* d with the keys outside `keys` removed.
Restrict(d, keys) == [k \in keys |-> d[k]]

\* The "hosts" lists followed: empty, one host, one host object without "host".
HostLists == {<<>>, <<[k \in {"host"} |-> "h1"]>>, <<EmptyDict>>}

\* A complete entry of item.get: lastvalue may be the empty string.
FullItems ==
  {[k \in {"lastvalue", "name", "hosts"} |->
      CASE k = "lastvalue" -> <<v>> [] k = "name" -> <<"cpu">> [] OTHER -> hs] :
     v \in {"", "5"}, hs \in HostLists}

\* A complete entry of trigger.get.
FullTriggers ==
  {[k \in {"lastchange", "priority", "description", "hosts"} |->
      CASE k = "lastchange" -> <<"0">> [] k = "priority" -> <<"3">>
        [] k = "description" -> <<"down">> [] OTHER -> hs] :
     hs \in HostLists}

\* The entries obtained by leaving out at most one field.
Entries(full) ==
  UNION {{e} \cup {Restrict(e, DOMAIN e \ {k}) : k \in DOMAIN e} : e \in full}

RECURSIVE Lists(_, _)
\* The lists of at most n elements of S.
Lists(S, n) ==
  IF n = 0 THEN {<<>>}
  ELSE LET shorter == Lists(S, n - 1)
       IN  shorter \cup {Append(l, x) : l \in shorter, x \in S}

\* Response bodies: an error body (no "result") or a result list.
Bodies(full) ==
  {[k \in {"error"} |-> <<"-32602">>]}
    \cup {[k \in {"result"} |-> l] : l \in Lists(Entries(full), MaxEntries)}

\* Variant: format_triggers_info catches nothing.
TRIGGERS_CAUGHT_Nothing == {}

\* The exceptions each formatter catches (lines 72, 100).
ITEMS_CAUGHT == {"IndexError", "KeyError"}
TRIGGERS_CAUGHT == {"KeyError"}

\* ', '.join of the host names, as the list of the names; "KeyError" if a host
\* object has no "host".
JoinHosts(hs) ==
  IF \E n \in 1..Len(hs) : "host" \notin DOMAIN hs[n]
    THEN [exc |-> "KeyError", text |-> <<>>]
    ELSE [exc |-> "", text |-> [n \in 1..Len(hs) |-> hs[n]["host"]]]

\* One pass of the loop body of format_items_info (lines 67-71): the line
\* added, or the exception of the first failing subscript.
ItemLine(item) ==
  IF {"lastvalue", "hosts"} \ DOMAIN item # {} THEN [exc |-> "KeyError", text |-> <<>>]
  ELSE LET hosts == JoinHosts(item["hosts"])
           val == item["lastvalue"]
       IN  IF hosts.exc # "" THEN hosts
           ELSE IF "name" \notin DOMAIN item THEN [exc |-> "KeyError", text |-> <<>>]
           ELSE [exc |-> "",
                 text |-> <<hosts.text, item["name"],
                            IF val # <<"">> THEN val ELSE <<"<i>No data</i>">> >>]

\* One pass of the loop body of format_triggers_info (lines 89-99).
TriggerLine(trigger) ==
  IF {"lastchange", "priority", "description", "hosts"} \ DOMAIN trigger # {}
    THEN [exc |-> "KeyError", text |-> <<>>]
  ELSE LET hosts == JoinHosts(trigger["hosts"])
       IN  IF hosts.exc # "" THEN hosts
           ELSE [exc |-> "",
                 text |-> <<trigger["lastchange"], trigger["priority"], hosts.text,
                            trigger["description"]>>]

\* The loop body of the formatter `kind`.
LineOf(kind, entry) == IF kind = "items" THEN ItemLine(entry) ELSE TriggerLine(entry)

\* The try block of the formatter `kind`: the lines of all entries, or the
\* first exception.
Lines(body, kind) ==
  IF "result" \notin DOMAIN body THEN [exc |-> "KeyError", text |-> <<>>]
  ELSE LET res == body["result"]
           bad == {n \in 1..Len(res) : LineOf(kind, res[n]).exc # ""}
       IN  IF bad # {} THEN LineOf(kind, res[Min(bad)])
           ELSE [exc |-> "", text |-> [n \in 1..Len(res) |-> LineOf(kind, res[n]).text]]

\* The except clause: the emergency response with the raw body in it, or the
\* exception going on up.
Emergency(body, tried, caught) ==
  IF tried.exc = "" THEN tried
  ELSE IF tried.exc \in caught
    THEN [exc |-> "", text |-> <<"Request parsing error! Raw data:", body>>]
  ELSE tried

FormatItemsInfo(body) == Emergency(body, Lines(body, "items"), ITEMS_CAUGHT)

FormatTriggersInfo(body) ==
  LET out == Emergency(body, Lines(body, "triggers"), TRIGGERS_CAUGHT)
  IN  IF out.exc = "" /\ out.text = <<>>
        THEN [exc |-> "", text |-> <<"NO TURNED TRIGGERS">>]
        ELSE out

FormatInit ==
  /\ \/ fstep = "items" /\ raw \in Bodies(FullItems)
     \/ fstep = "triggers" /\ raw \in Bodies(FullTriggers)
  /\ formatted = [exc |-> "", text |-> <<>>]
  /\ SessionInit /\ client = "api"
  /\ ParserOff /\ QueryOff

FormatItemsStep ==
  /\ fstep = "items"
  /\ formatted' = FormatItemsInfo(raw)
  /\ fstep' = "items done"
  /\ UNCHANGED raw
  /\ UNCHANGED <<vars, parserVars, queryVars>>

FormatTriggersStep ==
  /\ fstep = "triggers"
  /\ formatted' = FormatTriggersInfo(raw)
  /\ fstep' = "triggers done"
  /\ UNCHANGED raw
  /\ UNCHANGED <<vars, parserVars, queryVars>>

FormatNext == FormatItemsStep \/ FormatTriggersStep

FormatSpec == FormatInit /\ [][FormatNext]_<<vars, parserVars, queryVars, formatVars>>

\* The body has no "result", or an entry of the result lacks one of `fields`,
\* or a host object of an entry lacks "host".
Deficient(body, fields) ==
  \/ "result" \notin DOMAIN body
  \/ \E n \in 1..Len(body["result"]) :
       LET entry == body["result"][n]
       IN  \/ fields \ DOMAIN entry # {}
           \/ \E h \in 1..Len(entry["hosts"]) : "host" \notin DOMAIN entry["hosts"][h]

\* C26: item formatting and trigger formatting never raise on a body without
\* "result" or with an entry that lacks a field they read, and return for
\* such a body the diagnostic text with the raw body in it.
C26_FormattingNeverRaises ==
  LET fields == IF fstep = "items done"
                  THEN {"lastvalue", "name", "hosts"}
                  ELSE {"lastchange", "priority", "description", "hosts"}
  IN  fstep \in {"items done", "triggers done"} =>
        /\ formatted.exc = ""
        /\ Deficient(raw, fields) =>
             /\ Len(formatted.text) = 2
             /\ formatted.text[1] = "Request parsing error! Raw data:"
             /\ formatted.text[2] = raw

\* A trigger list whose second entry has no "priority" was formatted: the
\* diagnostic text came back.
C26_Witness ==
  /\ fstep = "triggers done"
  /\ "result" \in DOMAIN raw
  /\ Len(raw["result"]) = 2
  /\ DOMAIN raw["result"][1] = {"lastchange", "priority", "description", "hosts"}
  /\ DOMAIN raw["result"][2] = {"lastchange", "description", "hosts"}
  /\ formatted = [exc |-> "", text |-> <<"Request parsing error! Raw data:", raw>>]

----------------------------------------------------------------------------
\* C27: when is_authorised of the API client returns, the boolean it returns
\* is the truth value of the stored token: after a false the store is empty
\* (None or ""), after a true it holds exactly the session id of the response.
C27_StatusIsTokenTruth ==
  [][\A c \in Calls :
       (client = "api" /\ (Answered(c, "check1") \/ Answered(c, "check2"))) =>
         /\ StatusReturned(c) = CheckEvent(Bool(auth'))
         /\ StatusReturned(c) = "check:true" => auth' = CheckAuthentication(resp'.body)
         /\ StatusReturned(c) = "check:false" => auth' \in {None, ""}
    ]_vars

\* A token was stored and in use by another call when a check was answered
\* with an error: the check returned false and the store is empty.
C27_Witness ==
  \E c, d \in Calls :
    /\ pc[d] = "wrapped"
    /\ req[d] = DataReq("t1")
    /\ pc[c] = "login"
    /\ trace[c] = <<"check:false", "login">>
    /\ resp = [call |-> c, body |-> ErrorBody(SESSION_TERMINATED)]
    /\ auth = None

----------------------------------------------------------------------------
\* Termination.  An awaited HTTP exchange ends, with a response or with an
\* exception of the transport, and the event loop then resumes the coroutine
\* that awaits it: a call that has started is not left waiting for ever.

\* The API client alone.
ApiInit == Init /\ client = "api"

\* The continuations of call c behind an await.
Resume(c) ==
  \/ FirstCheckResponse(c)
  \/ LoginResponse(c)
  \/ SecondCheckResponse(c)
  \/ WrappedResponse(c)
  \/ ConnectFail(c)

ApiNext == \E c \in Calls : Start(c) \/ Resume(c)

LiveSpec == ApiInit /\ [][ApiNext]_vars /\ WF_vars(\E c \in Calls : Resume(c))

\* The requests call c has sent so far, by kind.
Checks(c) == Count(trace[c], "check:true") + Count(trace[c], "check:false")
Logins(c) == Count(trace[c], "login") + Count(trace[c], "relogin")

\* C28: every protected call of the API client that has started ends,
\* whatever the backend answers (from some moment on every call is over or
\* was never started), having made at most two session checks and at
\* most two logins (one by the wrapper, one by the -32602 recovery) and having
\* sent the wrapped request at most once, exactly once if it returned.
C28_CallsTerminateWithinBounds ==
  /\ [](\A c \in Calls :
          /\ Checks(c) <= 2
          /\ Count(trace[c], "login") <= 1
          /\ Count(trace[c], "relogin") <= 1
          /\ Count(trace[c], "call") <= 1
          /\ outcome[c] = "returned" => Count(trace[c], "call") = 1)
  /\ <>[](\A c \in Calls : pc[c] \in {"idle", "done"})

\* A call has ended after two checks, the wrapper's login, the wrapped request
\* and the login of the -32602 recovery.
C28_Witness ==
  \E c \in Calls :
    /\ client = "api"
    /\ pc[c] = "done"
    /\ outcome[c] = "returned"
    /\ Checks(c) = 2
    /\ Logins(c) = 2
    /\ trace[c] = <<"check:false", "login", "check:true", "call", "relogin">>

----------------------------------------------------------------------------
\* C29: a lookup of a name that is no key of the parsed message returns the
\* empty string and adds that name, with the empty string, to the mapping,
\* which changes in nothing else; a lookup of a key leaves the mapping as it
\* was and returns the value of the key.
C29_LookupInsertsAbsentKey ==
  [][(pstep = "parsed" /\ Len(got') = Len(got) + 1) =>
       LET name == got'[Len(got')].name
           val == got'[Len(got')].value
       IN  /\ name \notin DOMAIN data =>
                /\ val = <<>>
                /\ DOMAIN data' = DOMAIN data \cup {name}
                /\ data'[name] = <<>>
                /\ \A k \in DOMAIN data : data'[k] = data[k]
           /\ name \in DOMAIN data =>
                /\ val = data[name]
                /\ data' = data
    ]_parserVars

\* "z" was looked up on the parsed [x: 1]: the mapping has the keys x and z.
C29_Witness ==
  /\ pstep = "parsed"
  /\ text = Tag(<<"x">>, <<"1">>)
  /\ got = <<[name |-> <<"z">>, value |-> <<>>]>>
  /\ DOMAIN data = {<<"x">>, <<"z">>}
  /\ data[<<"z">>] = <<>>
  /\ data[<<"x">>] = <<"1">>

====
